---- MODULE Spec2Model ----
(***************************************************************************)
(* Model of src/mod.ts: the Result and Option containers.                  *)
(*                                                                         *)
(* JavaScript values are records [k, n]: k is the kind of the value and n  *)
(* tells values of one kind apart (the number itself, an index into the    *)
(* string table, 0/1 for false/true, the identity of an Error object, the  *)
(* address of a Result or Option instance in the heap).                    *)
(***************************************************************************)
EXTENDS Integers, Sequences, FiniteSets

\* How many Result/Option instances and library-raised Error objects a run
\* of arbitrary calls may allocate.
MaxObjs == 2

\* How many layers a run that only nests containers and deep-unwraps them
\* may build.
MaxDepth == 3

Undefined == [k |-> "undefined", n |-> 0]
Null      == [k |-> "null", n |-> 0]
Num(i)    == [k |-> "number", n |-> i]
EmptyStr  == [k |-> "string", n |-> 0]
False     == [k |-> "boolean", n |-> 0]
True      == [k |-> "boolean", n |-> 1]
Err(i)    == [k |-> "error", n |-> i]
Ref(i)    == [k |-> "ref", n |-> i]

\* const Never = undefined as never;
Never == Undefined

\* The two Error objects the caller made before using the library; they
\* carry the same message, so only identity tells them apart.
UserErrors == <<"something went wrong!", "something went wrong!">>

VARIABLES
    heap,     \* the Result and Option instances, by address
    errors,   \* the message of every Error object, by identity
    last,     \* the caller's last call: operation, receiver, argument, outcome
    promise,  \* the promises of the caller's last Result.fromPromise call
    budget    \* how many objects this run may allocate

vars == <<heap, errors, last, promise, budget>>

----------------------------------------------------------------------------
(* Values the caller can pass in a given state.                            *)

Prims == {Undefined, Null, Num(0), EmptyStr, False}
ErrVals == {Err(i) : i \in 1..Len(errors)}
RefVals == {Ref(i) : i \in 1..Len(heap)}
Vals == Prims \cup ErrVals \cup RefVals

IsResult(v) == v.k = "ref" /\ heap[v.n].cls = "Result"
IsOption(v) == v.k = "ref" /\ heap[v.n].cls = "Option"
Results == {v \in RefVals : IsResult(v)}
Options == {v \in RefVals : IsOption(v)}

\* Objects allocated so far, against the budget of the run.
Allocated == Len(heap) + (Len(errors) - Len(UserErrors))
CanAlloc == Allocated < budget

----------------------------------------------------------------------------
(* Outcome of a call: a returned value, or a thrown one.  fresh is the     *)
(* message of the Error the call created with `new Error(msg)` ("" when it *)
(* created none); that Error gets the next identity.                       *)

Return(v) == [kind |-> "return", val |-> v, fresh |-> ""]
Throw(v)  == [kind |-> "throw", val |-> v, fresh |-> ""]
ThrowNew(msg) == [kind |-> "throw", val |-> Err(Len(errors) + 1), fresh |-> msg]

\* What JavaScript takes for false in a condition, and what ?? replaces.
Falsy == {Undefined, Null, Num(0), EmptyStr, False}
Nullish == {Undefined, Null}

\* private constructor of Result (a parameter left out or undefined takes
\* its default, Never)
NewResult(type, value, error) ==
    [cls |-> "Result", type |-> type,
     value |-> IF value = Undefined THEN Never ELSE value,
     error |-> IF error = Undefined THEN Never ELSE error]

ResultOk(value) == NewResult("ok", value, Undefined)
\* Mutant: new Result("error", error), the error in the value slot.
ResultErrInValueSlot(error) == NewResult("error", error, Undefined)

ResultErr(error) == NewResult("error", Never, error)

isOk(r) == heap[r.n].type = "ok"
isErr(r) == heap[r.n].type = "error"

\* Mutant: if (this.value) return this.value; throw this.error.
unwrapIfTruthy(r) ==
    IF heap[r.n].value \notin Falsy
    THEN Return(heap[r.n].value) ELSE Throw(heap[r.n].error)

\* Mutant: throw new Error(this.error.message).
unwrapThrowsCopy(r) ==
    IF isOk(r) THEN Return(heap[r.n].value)
    ELSE ThrowNew(errors[heap[r.n].error.n])

unwrap(r) ==
    IF isOk(r) THEN Return(heap[r.n].value) ELSE Throw(heap[r.n].error)

\* Mutant: return this.value ?? fallbackValue.
unwrapOrNullish(r, fallbackValue) ==
    IF heap[r.n].value \notin Nullish
    THEN Return(heap[r.n].value) ELSE Return(fallbackValue)

\* Mutant: the body of unwrap, the fallback ignored.
unwrapOrThrows(r, fallbackValue) ==
    IF isOk(r) THEN Return(heap[r.n].value) ELSE Throw(heap[r.n].error)

unwrapOr(r, fallbackValue) ==
    IF isOk(r) THEN Return(heap[r.n].value) ELSE Return(fallbackValue)

\* Mutant: throw this.error, as unwrap does.
unwrapErrThrowsSlot(r) ==
    IF isErr(r) THEN Return(heap[r.n].error) ELSE Throw(heap[r.n].error)

unwrapErr(r) ==
    IF isErr(r) THEN Return(heap[r.n].error)
    ELSE ThrowNew("Cannot unwrapErr an Ok result")

\* private constructor of Option
NewOption(type, value) ==
    [cls |-> "Option", type |-> type,
     value |-> IF value = Undefined THEN Never ELSE value]

OptionSome(value) == NewOption("some", value)
OptionNone == NewOption("none", Undefined)

\* Mutant: maybe ? Option.some(maybe) : Option.none().
OptionFromTruthy(maybe) ==
    IF maybe \in Falsy THEN OptionNone ELSE OptionSome(maybe)

OptionFrom(maybe) ==
    IF maybe = Undefined \/ maybe = Null THEN OptionNone ELSE OptionSome(maybe)

isSome(o) == heap[o.n].type = "some"
isNone(o) == heap[o.n].type = "none"

optUnwrap(o) ==
    IF isSome(o) THEN Return(heap[o.n].value)
    ELSE ThrowNew("Cannot unwrap a None option")

optUnwrapOr(o, fallbackValue) ==
    IF isSome(o) THEN Return(heap[o.n].value) ELSE Return(fallbackValue)

----------------------------------------------------------------------------
(* The mapping functions a caller passes: x => x, and x => c for a value c *)
(* the function captured.  None of them throws.                            *)

Identity == [f |-> "id", v |-> Undefined]
Const(c) == [f |-> "const", v |-> c]
NoFn     == [f |-> "none", v |-> Undefined]
Fns    == {Identity} \cup {Const(c) : c \in Vals}
ErrFns == {Identity} \cup {Const(c) : c \in ErrVals}

Apply(fn, x) == IF fn.f = "id" THEN x ELSE fn.v

\* An instance a call is about to allocate, with the invocations of fn made
\* to compute it.
Made(obj, calls) == [obj |-> obj, calls |-> calls]

\* Mutant: fn(this.value) computed before the variant is looked at.
mapEager(r, fn) ==
    Made(IF isOk(r) THEN ResultOk(Apply(fn, heap[r.n].value))
                    ELSE ResultErr(heap[r.n].error),
         <<heap[r.n].value>>)

map(r, fn) ==
    IF isOk(r)
    THEN Made(ResultOk(Apply(fn, heap[r.n].value)), <<heap[r.n].value>>)
    ELSE Made(ResultErr(heap[r.n].error), << >>)

mapErr(r, fn) ==
    IF isErr(r)
    THEN Made(ResultErr(Apply(fn, heap[r.n].error)), <<heap[r.n].error>>)
    ELSE Made(ResultOk(heap[r.n].value), << >>)

optMap(o, fn) ==
    IF isSome(o)
    THEN Made(OptionSome(Apply(fn, heap[o.n].value)), <<heap[o.n].value>>)
    ELSE Made(OptionNone, << >>)

\* Mutant: the `instanceof Option` branch left out.
RECURSIVE unwrapDeepResultsOnly(_)
unwrapDeepResultsOnly(r) ==
    LET value == unwrap(r)
    IN  IF value.kind = "throw" THEN value
        ELSE IF IsResult(value.val) THEN unwrapDeepResultsOnly(value.val)
        ELSE Return(value.val)

\* Result.unwrapDeep and Option.unwrapDeep call each other; a throw of
\* unwrap() leaves the method at once.
RECURSIVE unwrapDeep(_), optUnwrapDeep(_)
unwrapDeep(r) ==
    LET value == unwrap(r)
    IN  IF value.kind = "throw" THEN value
        ELSE IF IsResult(value.val) THEN unwrapDeep(value.val)
        ELSE IF IsOption(value.val) THEN optUnwrapDeep(value.val)
        ELSE Return(value.val)

optUnwrapDeep(o) ==
    LET value == optUnwrap(o)
    IN  IF value.kind = "throw" THEN value
        ELSE IF IsResult(value.val) THEN unwrapDeep(value.val)
        ELSE IF IsOption(value.val) THEN optUnwrapDeep(value.val)
        ELSE Return(value.val)

----------------------------------------------------------------------------
(* Result.fromPromise(promise) is promise.then(Result.ok).catch(Result.err):*)
(* p is the promise passed in, q the one then() returns and out the one    *)
(* catch() returns, which the caller awaits.                               *)

Pending == [s |-> "pending", v |-> Undefined]
Fulfilled(v) == [s |-> "fulfilled", v |-> v]
Rejected(v) == [s |-> "rejected", v |-> v]
Idle == [p |-> Pending, q |-> Pending, out |-> Pending, base |-> 0, on |-> FALSE]
Called == [p |-> Pending, q |-> Pending, out |-> Pending, base |-> Len(heap), on |-> TRUE]

Awaiting == [kind |-> "pending", val |-> Undefined, fresh |-> ""]

----------------------------------------------------------------------------
\* how: for Result.fromPromise, how the promise passed in settled.
NoCall == [op |-> "none", recv |-> Undefined, arg |-> Undefined, fn |-> NoFn,
           out |-> Return(Undefined), calls |-> << >>, how |-> ""]

Start ==
    /\ heap = << >>
    /\ errors = UserErrors
    /\ last = NoCall
    /\ promise = Idle

Init == Start /\ budget = MaxObjs

\* The caller is suspended in `await Result.fromPromise(p)`.
Suspended == last.out.kind = "pending"

\* The effect of a call on the Error objects: the Error it created, if any.
Raised(out) == IF out.fresh = "" THEN errors ELSE Append(errors, out.fresh)

\* A call that allocates the instance made.obj and returns it.
Construct(op, recv, arg, fn, made) ==
    /\ ~Suspended
    /\ CanAlloc
    /\ heap' = Append(heap, made.obj)
    /\ errors' = errors
    /\ last' = [op |-> op, recv |-> recv, arg |-> arg, fn |-> fn,
                out |-> Return(Ref(Len(heap) + 1)), calls |-> made.calls, how |-> ""]
    /\ UNCHANGED <<promise, budget>>

\* A call on the instance recv that allocates no instance.
Query(op, recv, arg, out) ==
    /\ ~Suspended
    /\ out.fresh # "" => CanAlloc
    /\ heap' = heap
    /\ errors' = Raised(out)
    /\ last' = [op |-> op, recv |-> recv, arg |-> arg, fn |-> NoFn,
                out |-> out, calls |-> << >>, how |-> ""]
    /\ UNCHANGED <<promise, budget>>

OkOf(S) ==
    \E v \in S : Construct("Result.ok", Undefined, v, NoFn, Made(ResultOk(v), << >>))
ErrOf(S) ==
    \E e \in S : Construct("Result.err", Undefined, e, NoFn, Made(ResultErr(e), << >>))
SomeOf(S) ==
    \E v \in S : Construct("Option.some", Undefined, v, NoFn, Made(OptionSome(v), << >>))
FromOf(S) ==
    \E v \in S : Construct("Option.from", Undefined, v, NoFn, Made(OptionFrom(v), << >>))

CallOk == OkOf(Vals)
CallErr == ErrOf(ErrVals)
CallSome == SomeOf(Vals)
CallNone == Construct("Option.none", Undefined, Undefined, NoFn, Made(OptionNone, << >>))
CallFrom == FromOf(Vals)

Bool(b) == IF b THEN True ELSE False

CallIsOk == \E r \in Results : Query("isOk", r, Undefined, Return(Bool(isOk(r))))
CallIsErr == \E r \in Results : Query("isErr", r, Undefined, Return(Bool(isErr(r))))
CallUnwrap == \E r \in Results : Query("unwrap", r, Undefined, unwrap(r))
CallUnwrapOr ==
    \E r \in Results, f \in Vals : Query("unwrapOr", r, f, unwrapOr(r, f))
CallUnwrapErr == \E r \in Results : Query("unwrapErr", r, Undefined, unwrapErr(r))
CallUnwrapDeep == \E r \in Results : Query("unwrapDeep", r, Undefined, unwrapDeep(r))
CallMap == \E r \in Results, fn \in Fns : Construct("map", r, Undefined, fn, map(r, fn))
CallMapErr ==
    \E r \in Results, fn \in ErrFns : Construct("mapErr", r, Undefined, fn, mapErr(r, fn))

CallOptUnwrap == \E o \in Options : Query("Option.unwrap", o, Undefined, optUnwrap(o))
CallOptUnwrapOr ==
    \E o \in Options, f \in Vals : Query("Option.unwrapOr", o, f, optUnwrapOr(o, f))
CallOptUnwrapDeep ==
    \E o \in Options : Query("Option.unwrapDeep", o, Undefined, optUnwrapDeep(o))
CallOptMap ==
    \E o \in Options, fn \in Fns : Construct("Option.map", o, Undefined, fn, optMap(o, fn))

\* const r = await Result.fromPromise(p), for a promise p not yet settled:
\* the caller is suspended until out settles.
CallFromPromise ==
    /\ ~Suspended
    /\ CanAlloc
    /\ promise' = Called
    /\ last' = [op |-> "Result.fromPromise", recv |-> Undefined, arg |-> Undefined,
                fn |-> NoFn, out |-> Awaiting, calls |-> << >>, how |-> "pending"]
    /\ UNCHANGED <<heap, errors, budget>>

\* The producer of p settles it.
Settle ==
    /\ promise.on /\ promise.p.s = "pending"
    /\ \/ \E v \in Vals : promise' = [promise EXCEPT !.p = Fulfilled(v)]
       \/ \E e \in ErrVals : promise' = [promise EXCEPT !.p = Rejected(e)]
    /\ UNCHANGED <<heap, errors, last, budget>>

\* The reaction then(Result.ok) registered on p: a rejection passes through.
ThenJob ==
    /\ promise.on /\ promise.p.s # "pending" /\ promise.q.s = "pending"
    /\ IF promise.p.s = "fulfilled"
       THEN /\ heap' = Append(heap, ResultOk(promise.p.v))
            /\ promise' = [promise EXCEPT !.q = Fulfilled(Ref(Len(heap) + 1))]
       ELSE /\ heap' = heap
            /\ promise' = [promise EXCEPT !.q = Rejected(promise.p.v)]
    /\ UNCHANGED <<errors, last, budget>>

\* Mutant: no catch(Result.err), out settles as q does.
CatchJobMissing ==
    /\ promise.on /\ promise.q.s # "pending" /\ promise.out.s = "pending"
    /\ promise' = [promise EXCEPT !.out = promise.q]
    /\ UNCHANGED <<heap, errors, last, budget>>

\* The reaction catch(Result.err) registered on q: a fulfilment passes through.
CatchJob ==
    /\ promise.on /\ promise.q.s # "pending" /\ promise.out.s = "pending"
    /\ IF promise.q.s = "rejected"
       THEN /\ heap' = Append(heap, ResultErr(promise.q.v))
            /\ promise' = [promise EXCEPT !.out = Fulfilled(Ref(Len(heap) + 1))]
       ELSE /\ heap' = heap
            /\ promise' = [promise EXCEPT !.out = promise.q]
    /\ UNCHANGED <<errors, last, budget>>

\* out has settled: the await resumes the caller with its value, or throws
\* its reason; the three promises are garbage from here on.
Resume ==
    /\ Suspended /\ promise.out.s # "pending"
    /\ last' = [last EXCEPT !.out = IF promise.out.s = "fulfilled"
                                    THEN Return(promise.out.v)
                                    ELSE Throw(promise.out.v),
                            !.arg = promise.p.v,
                            !.how = promise.p.s]
    /\ promise' = Idle
    /\ UNCHANGED <<heap, errors, budget>>

NextPromise ==
    \/ CallFromPromise
    \/ Settle
    \/ ThenJob
    \/ CatchJob
    \/ Resume

Next ==
    \/ CallOk
    \/ CallErr
    \/ CallSome
    \/ CallNone
    \/ CallFrom
    \/ CallIsOk
    \/ CallIsErr
    \/ CallUnwrap
    \/ CallUnwrapOr
    \/ CallUnwrapErr
    \/ CallUnwrapDeep
    \/ CallMap
    \/ CallMapErr
    \/ CallOptUnwrap
    \/ CallOptUnwrapOr
    \/ CallOptUnwrapDeep
    \/ CallOptMap
    \/ NextPromise

Spec == Init /\ [][Next]_vars

----------------------------------------------------------------------------
(* A caller that only awaits Result.fromPromise.  The reactions are jobs   *)
(* of the microtask queue and the resumption of the caller is one too: the *)
(* host runs each job that is queued.  Nothing makes the producer settle p.*)

FairPromise ==
    /\ Init
    /\ [][NextPromise]_vars
    /\ WF_vars(ThenJob)
    /\ WF_vars(CatchJob)
    /\ WF_vars(Resume)

----------------------------------------------------------------------------
(* A caller that nests containers, each new one around a payload that is   *)
(* no container or around the instance made last, and deep-unwraps them.   *)

Payloads == Prims \cup {Num(5)} \cup ErrVals
Inner == IF heap = << >> THEN Payloads ELSE {Ref(Len(heap))}

\* Up to MaxDepth layers, and room for one Error that a deep unwrap of the
\* deepest nesting creates.
InitDeep == Start /\ budget = MaxDepth + 1

NextDeep ==
    \/ Len(heap) < MaxDepth /\ OkOf(Inner)
    \/ Len(heap) < MaxDepth /\ SomeOf(Inner)
    \/ ErrOf(IF heap = << >> THEN ErrVals ELSE {})
    \/ heap = << >> /\ CallNone
    \/ CallUnwrapDeep
    \/ CallOptUnwrapDeep

SpecDeep == InitDeep /\ [][NextDeep]_vars

----------------------------------------------------------------------------
(* The properties.  made is the instance the last call returned, recv the  *)
(* instance it was called on.                                              *)

made == heap[last.out.val.n]
recv == heap[last.recv.n]
UnwrapErrMsg == "Cannot unwrapErr an Ok result"
UnwrapNoneMsg == "Cannot unwrap a None option"

\* The call threw an Error it created itself, with the message msg.
ThrewNew(msg) ==
    /\ last.out.kind = "throw"
    /\ last.out.fresh = msg
    /\ last.out.val = Err(Len(errors))
    /\ errors[Len(errors)] = msg

\* C1: for every value v, undefined, null and containers included,
\* Result.ok(v) is Ok and not Error, and unwrap() on it returns v itself and
\* does not throw; a later unwrap() call on an Ok result returns its value.
C1_OkUnwraps ==
    /\ last.op = "Result.ok" =>
          /\ IsResult(last.out.val)
          /\ isOk(last.out.val) /\ ~isErr(last.out.val)
          /\ unwrap(last.out.val) = Return(last.arg)
    /\ last.op = "unwrap" /\ isOk(last.recv) => last.out = Return(recv.value)

C1_Witness ==
    /\ last.op = "Result.ok"
    /\ last.arg = Undefined

\* C2: for every Error object e, Result.err(e) is Error and not Ok,
\* unwrapErr() on it returns e, and unwrap() on it throws e itself: the same
\* object, no Error made for the occasion.
C2_ErrThrowsItself ==
    /\ last.op = "Result.err" =>
          /\ IsResult(last.out.val)
          /\ isErr(last.out.val) /\ ~isOk(last.out.val)
          /\ unwrapErr(last.out.val) = Return(last.arg)
          /\ unwrap(last.out.val) = Throw(last.arg)
    /\ last.op = "unwrap" /\ isErr(last.recv) =>
          /\ last.out = Throw(recv.error)
          /\ recv.error \in ErrVals

C2_Witness ==
    /\ last.op = "unwrap"
    /\ isErr(last.recv)
    /\ last.out.kind = "throw"

\* C3: Result.fromPromise(p) gives one Result, after p settled.  While p is
\* pending no Result is made and the caller stays suspended; the promise the
\* caller awaits never rejects; it fulfils with the one Result made since
\* the call, Ok with unwrap() = v when p fulfilled with v and Error with
\* unwrapErr() = e when p rejected with e, and this is what the caller
\* resumes with.  Once p has settled the caller does resume.
C3_Pending ==
    promise.on /\ promise.p.s = "pending" =>
        /\ promise.q.s = "pending" /\ promise.out.s = "pending"
        /\ Suspended
        /\ Len(heap) = promise.base

C3_Settled ==
    /\ promise.out.s # "rejected"
    /\ promise.on /\ promise.out.s = "fulfilled" =>
          /\ promise.out.v = Ref(promise.base + 1)
          /\ Len(heap) = promise.base + 1
          /\ IsResult(promise.out.v)
          /\ promise.p.s = "fulfilled" =>
                /\ isOk(promise.out.v)
                /\ unwrap(promise.out.v) = Return(promise.p.v)
          /\ promise.p.s = "rejected" =>
                /\ isErr(promise.out.v)
                /\ unwrapErr(promise.out.v) = Return(promise.p.v)

C3_Resumed ==
    last.op = "Result.fromPromise" /\ ~Suspended =>
        /\ last.out.kind = "return"
        /\ last.out.val = Ref(Len(heap))
        /\ IsResult(last.out.val)
        /\ last.how \in {"fulfilled", "rejected"}
        /\ last.how = "fulfilled" =>
              isOk(last.out.val) /\ unwrap(last.out.val) = Return(last.arg)
        /\ last.how = "rejected" =>
              isErr(last.out.val) /\ unwrapErr(last.out.val) = Return(last.arg)

C3_FromPromise ==
    /\ [](C3_Pending /\ C3_Settled /\ C3_Resumed)
    /\ (promise.on /\ promise.p.s # "pending") ~> ~Suspended

C3_Witness ==
    /\ last.op = "Result.fromPromise"
    /\ last.how = "rejected"
    /\ last.out.kind = "return"

\* C4: unwrapDeep() on any container of a nesting returns the payload at the
\* bottom when every layer is Ok or Some, and otherwise throws what unwrap()
\* throws on the layer that is not: the error an Error result holds, a new
\* 'Cannot unwrap a None option' Error for a None option.  (In a nesting
\* built by SpecDeep, instance 1 is the innermost layer and every other
\* instance is an Ok or a Some around the instance made before it.)
DeepOps == {"unwrapDeep", "Option.unwrapDeep"}

C4_UnwrapDeep ==
    last.op \in DeepOps =>
        /\ heap[1].type \in {"ok", "some"} =>
              last.out = Return(heap[1].value) /\ last.out.val \in Payloads
        /\ heap[1].type = "error" => last.out = Throw(heap[1].error)
        /\ heap[1].type = "none" => ThrewNew(UnwrapNoneMsg)

\* Result.ok(Result.ok(Option.some(5))).unwrapDeep() has returned 5.
C4_Witness ==
    /\ last.op = "unwrapDeep"
    /\ Len(heap) = 3
    /\ heap[1] = OptionSome(Num(5))
    /\ heap[2] = ResultOk(Ref(1))
    /\ heap[3] = ResultOk(Ref(2))
    /\ last.recv = Ref(3)
    /\ last.out = Return(Num(5))

\* C5: Option.from(maybe) is None exactly when maybe is null or undefined;
\* for any other value, 0, "" and false included, it is Some and unwrap()
\* on it returns that value.
C5_FromNullish ==
    last.op = "Option.from" =>
        /\ IsOption(last.out.val)
        /\ isNone(last.out.val) <=> last.arg \in Nullish
        /\ isSome(last.out.val) <=> ~isNone(last.out.val)
        /\ last.arg \notin Nullish => optUnwrap(last.out.val) = Return(last.arg)

C5_Witness ==
    /\ last.op = "Option.from"
    /\ last.arg \in {Num(0), EmptyStr, False}
    /\ isSome(last.out.val)

\* C6 as stated: of the operations of Result, only unwrap() and unwrapErr()
\* throw.
ResultOps == {"Result.ok", "Result.err", "isOk", "isErr", "unwrap", "unwrapOr",
              "unwrapErr", "unwrapDeep", "map", "mapErr"}

C6_OnlyUnwrapAndUnwrapErrThrow ==
    last.op \in ResultOps \ {"unwrap", "unwrapErr"} => last.out.kind = "return"

\* C6, amended: of the operations of Result, only unwrap(), unwrapErr() and
\* unwrapDeep() throw; ok, err, isOk, isErr, unwrapOr, map and mapErr return.
C6_OnlyUnwrapsThrow ==
    last.op \in ResultOps \ {"unwrap", "unwrapErr", "unwrapDeep"} =>
        last.out.kind = "return"

C6_Witness ==
    /\ last.op = "unwrapOr"
    /\ isErr(last.recv)
    /\ last.out.kind = "return"

\* C7: unwrapErr() on an Ok result returns nothing and throws an Error it
\* creates, with message 'Cannot unwrapErr an Ok result', which is neither
\* the value of the result nor the error of any Result; unwrap() on a None
\* option throws an Error with message 'Cannot unwrap a None option'.
C7_MisuseIsLoud ==
    /\ last.op = "unwrapErr" /\ isOk(last.recv) =>
          /\ ThrewNew(UnwrapErrMsg)
          /\ last.out.val # recv.value
          /\ \A r \in Results : heap[r.n].error # last.out.val
    /\ last.op = "Option.unwrap" /\ isNone(last.recv) => ThrewNew(UnwrapNoneMsg)

\* unwrapErr() was called on an Ok result whose value is itself an Error.
C7_Witness ==
    /\ last.op = "unwrapErr"
    /\ isOk(last.recv)
    /\ recv.value \in ErrVals

\* C8: map on an Ok result calls fn once, on the value, and returns an Ok
\* result holding what fn returned, a container included; mapErr on an Error
\* result does the same with the error; map on a Some option returns a Some
\* option holding fn(value).  On the other variant none of them calls fn:
\* map returns an Error result with the same error, mapErr an Ok result with
\* the same value, Option.map a None option.
C8_MapsOneVariant ==
    /\ last.op = "map" =>
          IF isOk(last.recv)
          THEN /\ last.calls = <<recv.value>>
               /\ made = ResultOk(Apply(last.fn, recv.value))
               /\ isOk(last.out.val)
               /\ unwrap(last.out.val) = Return(Apply(last.fn, recv.value))
          ELSE /\ last.calls = << >>
               /\ isErr(last.out.val)
               /\ unwrapErr(last.out.val) = Return(recv.error)
    /\ last.op = "mapErr" =>
          IF isErr(last.recv)
          THEN /\ last.calls = <<recv.error>>
               /\ isErr(last.out.val)
               /\ unwrapErr(last.out.val) = Return(Apply(last.fn, recv.error))
          ELSE /\ last.calls = << >>
               /\ isOk(last.out.val)
               /\ unwrap(last.out.val) = Return(recv.value)
    /\ last.op = "Option.map" =>
          IF isSome(last.recv)
          THEN /\ last.calls = <<recv.value>>
               /\ isSome(last.out.val)
               /\ optUnwrap(last.out.val) = Return(Apply(last.fn, recv.value))
          ELSE /\ last.calls = << >>
               /\ isNone(last.out.val)

\* map was called on an Ok result with a function that returns a Result.
C8_Witness ==
    /\ last.op = "map"
    /\ isOk(last.recv)
    /\ IsResult(Apply(last.fn, recv.value))
    /\ made.value = Apply(last.fn, recv.value)

\* C9: unwrapOr(f) never throws; on an Ok result or a Some option it returns
\* the value, whatever the value is, and on an Error result or a None option
\* it returns f.
C9_UnwrapOrByVariant ==
    /\ last.op = "unwrapOr" =>
          last.out = IF recv.type = "ok" THEN Return(recv.value) ELSE Return(last.arg)
    /\ last.op = "Option.unwrapOr" =>
          last.out = IF recv.type = "some" THEN Return(recv.value) ELSE Return(last.arg)

\* unwrapOr was called on Result.ok(undefined) with another fallback.
C9_Witness ==
    /\ last.op = "unwrapOr"
    /\ recv = ResultOk(Undefined)
    /\ last.arg # Undefined

\* C10: every instance has one of the two tags of its class, and the slot
\* of the other variant holds Never; no step changes or removes an instance
\* that exists; map and mapErr return an instance that did not exist.
C10_OneSlot ==
    \A i \in 1..Len(heap) :
        IF heap[i].cls = "Result"
        THEN /\ heap[i].type \in {"ok", "error"}
             /\ isOk(Ref(i)) # isErr(Ref(i))
             /\ isOk(Ref(i)) => heap[i].error = Never
             /\ isErr(Ref(i)) => heap[i].value = Never
        ELSE /\ heap[i].cls = "Option"
             /\ heap[i].type \in {"some", "none"}
             /\ isSome(Ref(i)) # isNone(Ref(i))
             /\ isNone(Ref(i)) => heap[i].value = Never

C10_Immutable ==
    /\ Len(heap') >= Len(heap)
    /\ \A i \in 1..Len(heap) : heap'[i] = heap[i]
    /\ last'.op \in {"map", "mapErr", "Option.map"} /\ last' # last =>
          /\ last'.out.val = Ref(Len(heap) + 1)
          /\ Len(heap') = Len(heap) + 1

C10_SingleActiveSlot == []C10_OneSlot /\ [][C10_Immutable]_vars

\* mapErr was called on Result.err(e), and made a second instance.
C10_Witness ==
    /\ last.op = "mapErr"
    /\ isErr(last.recv)
    /\ heap[1] = ResultErr(Err(1))
    /\ Len(heap) = 2

====
